---- MODULE Spec2Model ----
(***************************************************************************)
(* Eco Habit Tracker: the six server actions of src/src/actions/index.ts   *)
(* over the two tables of src/db/tables.ts.                                *)
(*                                                                         *)
(* An optional value (a TypeScript `T | undefined`, or a nullable column)  *)
(* is a sequence of length at most one: <<>> is undefined / NULL, <<v>> is *)
(* the value v.                                                            *)
(***************************************************************************)
EXTENDS Integers, Sequences, FiniteSets, TLC

VARIABLES
    habits,   \* the rows of table EcoHabits
    logs,     \* the rows of table EcoHabitLogs
    issued,   \* how many identifiers crypto.randomUUID() has produced
    now,      \* the wall clock read by new Date()
    focus,    \* what this run varies: one payload field, or the clock
    archived, \* history: the habits archiveHabit has archived successfully
    pc,       \* concurrent updateHabit: each invocation's position
    req,      \* concurrent updateHabit: each invocation's caller and input
    orig      \* concurrent updateHabit: the habit row before both invocations,
              \* and the invocations in the order in which they wrote

vars == <<habits, logs, issued, now, focus, archived, pc, req, orig>>

----------------------------------------------------------------------------
(* Bounds *)

MaxHabits == 2
MaxLogs == 1
MaxTime == 1

----------------------------------------------------------------------------
(* Optional values *)

None == <<>>
Some(v) == <<v>>
IsSome(o) == o # None
Val(o) == o[1]

\* JavaScript truthiness of an optional string: undefined and "" are falsy.
Truthy(o) == IsSome(o) /\ Val(o) # ""

\* a ?? b
Coalesce(o, d) == IF IsSome(o) THEN Val(o) ELSE d

----------------------------------------------------------------------------
(* Callers and identifiers *)

Users == {"alice", "bob"}

\* context.locals.user: absent, or a signed-in user
Contexts == {None} \cup {Some(u) : u \in Users}

\* The values crypto.randomUUID() returns, in the order it returns them.
UUIDPool == <<"u1", "u2", "u3", "u4", "u5", "u6", "u7", "u8">>

randomUUID(n) == UUIDPool[n + 1]

\* Identifier strings a caller may send for a habit or for a log: absent, the
\* empty string, the identifier of any stored row of that table (whoever owns
\* it), and one that was never produced.
HabitIdInputs == {None, Some(""), Some("zz")} \cup {Some(h.id) : h \in habits}

LogIdInputs == {None, Some(""), Some("zz")} \cup {Some(l.id) : l \in logs}

----------------------------------------------------------------------------
(* Input payloads *)

HabitOptionalFields ==
    {"description", "category", "frequency", "targetPerPeriod",
     "impactPerUnit", "impactUnit"}

LogOptionalFields == {"logDate", "quantity", "notes"}

PayloadFields == {"name"} \cup HabitOptionalFields \cup LogOptionalFields

\* A run varies one thing: the values callers send for one payload field (the
\* other optional fields are then left out of every payload), or the time at
\* which the invocations happen.
Focuses == PayloadFields \cup {"clock"}

\* Sample values of each payload field; "" for name, 0 for targetPerPeriod and
\* -1 for quantity are the values the schemas reject.
FieldValues(f) ==
    CASE f = "name" -> {"", "n1", "n2"}
      [] f = "description" -> {"d"}
      [] f = "category" -> {"water"}
      [] f = "frequency" -> {"daily"}
      [] f = "targetPerPeriod" -> {0, 3}
      [] f = "impactPerUnit" -> {2}
      [] f = "impactUnit" -> {"kg_co2"}
      [] f = "logDate" -> {0}
      [] f = "quantity" -> {-1, 1, 2}
      [] f = "notes" -> {"note"}

\* What callers send for field f: anything when f is the field in focus,
\* otherwise one of dflts.
FieldInputs(f, dflts) ==
    IF f = focus THEN {None} \cup {Some(v) : v \in FieldValues(f)} ELSE dflts

HabitFieldInputs(names) ==
    [name : FieldInputs("name", names),
     description : FieldInputs("description", {None}),
     category : FieldInputs("category", {None}),
     frequency : FieldInputs("frequency", {None}),
     targetPerPeriod : FieldInputs("targetPerPeriod", {None}),
     impactPerUnit : FieldInputs("impactPerUnit", {None}),
     impactUnit : FieldInputs("impactUnit", {None})]

WithId(in, id) ==
    [id |-> id, name |-> in.name, description |-> in.description,
     category |-> in.category, frequency |-> in.frequency,
     targetPerPeriod |-> in.targetPerPeriod, impactPerUnit |-> in.impactPerUnit,
     impactUnit |-> in.impactUnit]

CreateHabitInputs == HabitFieldInputs({Some("n1")})

UpdateHabitInputs ==
    {WithId(in, id) : in \in HabitFieldInputs({None, Some("n2")}), id \in HabitIdInputs}

ArchiveHabitInputs == [id : HabitIdInputs]

ListMyHabitsInputs == [includeInactive : {None, Some(TRUE), Some(FALSE)}]

UpsertHabitLogInputs ==
    [id : LogIdInputs,
     habitId : HabitIdInputs,
     logDate : FieldInputs("logDate", {None}),
     quantity : FieldInputs("quantity", {None}),
     notes : FieldInputs("notes", {None})]

\* None is a call with no input object at all
ListHabitLogsInputs == {None} \cup {Some([habitId |-> h]) : h \in HabitIdInputs}

----------------------------------------------------------------------------
(* Input schemas (zod) *)

\* habitFieldsSchema
habitFieldsSchema(in) ==
    /\ IsSome(in.name)
    /\ Len(Val(in.name)) >= 1
    /\ IsSome(in.targetPerPeriod) => Val(in.targetPerPeriod) > 0

\* habitFieldsSchema.partial().extend({ id }).refine(some field defined)
updateHabitSchema(in) ==
    /\ IsSome(in.name) => Len(Val(in.name)) >= 1
    /\ IsSome(in.targetPerPeriod) => Val(in.targetPerPeriod) > 0
    /\ IsSome(in.id)
    /\ \/ IsSome(in.name)
       \/ IsSome(in.description)
       \/ IsSome(in.category)
       \/ IsSome(in.frequency)
       \/ IsSome(in.targetPerPeriod)
       \/ IsSome(in.impactPerUnit)
       \/ IsSome(in.impactUnit)

archiveHabitSchema(in) == IsSome(in.id)

\* z.boolean().default(false): every sampled input parses
listMyHabitsSchema(in) == in.includeInactive \in {None, Some(TRUE), Some(FALSE)}

upsertHabitLogSchema(in) ==
    /\ IsSome(in.habitId)
    /\ IsSome(in.quantity) => Val(in.quantity) >= 0

\* z.object({ habitId: z.string().optional() }).default({}): no input at all,
\* or an object whose habitId is absent or a string
listHabitLogsSchema(in) == IsSome(in) => Len(Val(in).habitId) <= 1

----------------------------------------------------------------------------
(* The database as the handlers see it *)

\* the two tables, the identifiers produced so far and the clock
Db(H, L, n, t) == [habits |-> H, logs |-> L, issued |-> n, now |-> t]

Cur == Db(habits, logs, issued, now)

\* the outcome of one invocation: the result the caller sees, the two tables
\* and the identifier counter after it, and the number of statements it sent
\* to the database
Outcome(code, data, H, L, n, ops) ==
    [code |-> code, data |-> data, habits |-> H, logs |-> L, issued |-> n,
     dbOps |-> ops]

\* an ActionError thrown after `ops` statements: nothing was written
Throw(db, code, ops) == Outcome(code, None, db.habits, db.logs, db.issued, ops)

\* the database an outcome leaves behind
After(db, r) == Db(r.habits, r.logs, r.issued, db.now)

\* defineAction({ input, handler }): the input is parsed against the schema
\* first, and the handler runs only on an input that parsed.
defineAction(db, parses, outcome) ==
    IF parses THEN outcome ELSE Throw(db, "VALIDATION", 0)

\* (mutant) requireUser lets a context without a user through
requireUser_NoCheck(context) ==
    [error |-> "", id |-> IF IsSome(context) THEN Val(context) ELSE ""]

\* requireUser: the signed-in user, or the error it throws
requireUser(context) ==
    IF ~IsSome(context)
    THEN [error |-> "UNAUTHORIZED", id |-> ""]
    ELSE [error |-> "", id |-> Val(context)]

\* (mutant) the habit is looked up by id alone, whoever owns it
getHabitForUser_AnyOwner(db, habitId, userId) ==
    LET rows == {h \in db.habits : h.id = habitId}
    IN  IF rows = {} THEN None ELSE Some(CHOOSE h \in rows : TRUE)

getHabitForUser(db, habitId, userId) ==
    LET rows == {h \in db.habits : h.id = habitId /\ h.userId = userId}
    IN  IF rows = {} THEN None ELSE Some(CHOOSE h \in rows : TRUE)

----------------------------------------------------------------------------
(* Statements sent to the database *)

\* db.insert(EcoHabits).values({ id, userId, ...input, isActive, createdAt,
\* updatedAt }): a field the input leaves undefined is stored as NULL
insertHabit(db, habitId, userId, input, timestamp) ==
    db.habits \cup
    {[id |-> habitId, userId |-> userId, name |-> Val(input.name),
      description |-> input.description, category |-> input.category,
      frequency |-> input.frequency, targetPerPeriod |-> input.targetPerPeriod,
      impactPerUnit |-> input.impactPerUnit, impactUnit |-> input.impactUnit,
      isActive |-> TRUE, createdAt |-> timestamp, updatedAt |-> timestamp]}

\* (mutant) the whole payload is written: a field it leaves out becomes NULL
habitUpdates_NullsMissing(h, input, timestamp) ==
    [id |-> h.id, userId |-> h.userId,
     name |-> IF IsSome(input.name) THEN Val(input.name) ELSE h.name,
     description |-> input.description, category |-> input.category,
     frequency |-> input.frequency, targetPerPeriod |-> input.targetPerPeriod,
     impactPerUnit |-> input.impactPerUnit, impactUnit |-> input.impactUnit,
     isActive |-> h.isActive, createdAt |-> h.createdAt,
     updatedAt |-> timestamp]

\* (mutant) an update also makes the habit active again
habitUpdates_Reactivates(h, input, timestamp) ==
    [id |-> h.id, userId |-> h.userId,
     name |-> IF IsSome(input.name) THEN Val(input.name) ELSE h.name,
     description |->
        IF IsSome(input.description) THEN input.description ELSE h.description,
     category |-> IF IsSome(input.category) THEN input.category ELSE h.category,
     frequency |->
        IF IsSome(input.frequency) THEN input.frequency ELSE h.frequency,
     targetPerPeriod |->
        IF IsSome(input.targetPerPeriod) THEN input.targetPerPeriod
        ELSE h.targetPerPeriod,
     impactPerUnit |->
        IF IsSome(input.impactPerUnit) THEN input.impactPerUnit
        ELSE h.impactPerUnit,
     impactUnit |->
        IF IsSome(input.impactUnit) THEN input.impactUnit ELSE h.impactUnit,
     isActive |-> TRUE, createdAt |-> h.createdAt,
     updatedAt |-> timestamp]

\* the `updates` object of updateHabit applied to one row: updatedAt, and each
\* field the input defines
habitUpdates(h, input, timestamp) ==
    [id |-> h.id, userId |-> h.userId,
     name |-> IF IsSome(input.name) THEN Val(input.name) ELSE h.name,
     description |->
        IF IsSome(input.description) THEN input.description ELSE h.description,
     category |-> IF IsSome(input.category) THEN input.category ELSE h.category,
     frequency |->
        IF IsSome(input.frequency) THEN input.frequency ELSE h.frequency,
     targetPerPeriod |->
        IF IsSome(input.targetPerPeriod) THEN input.targetPerPeriod
        ELSE h.targetPerPeriod,
     impactPerUnit |->
        IF IsSome(input.impactPerUnit) THEN input.impactPerUnit
        ELSE h.impactPerUnit,
     impactUnit |->
        IF IsSome(input.impactUnit) THEN input.impactUnit ELSE h.impactUnit,
     isActive |-> h.isActive, createdAt |-> h.createdAt,
     updatedAt |-> timestamp]

\* db.update(EcoHabits).set(updates).where(id = input.id and userId = user.id)
updateHabitRows(db, userId, input, timestamp) ==
    {IF h.id = Val(input.id) /\ h.userId = userId
     THEN habitUpdates(h, input, timestamp) ELSE h : h \in db.habits}

\* db.update(EcoHabits).set({ isActive: false, updatedAt })
\*   .where(id = input.id and userId = user.id)
archiveHabitRows(db, userId, input, timestamp) ==
    {IF h.id = Val(input.id) /\ h.userId = userId
     THEN [h EXCEPT !.isActive = FALSE, !.updatedAt = timestamp] ELSE h :
        h \in db.habits}

\* db.select().from(EcoHabits).where(whereClause) of listMyHabits
selectHabits(db, userId, includeInactive) ==
    IF includeInactive
    THEN {h \in db.habits : h.userId = userId}
    ELSE {h \in db.habits : h.userId = userId /\ h.isActive = TRUE}

\* db.select().from(EcoHabitLogs).where(id = input.id and userId = user.id)
selectLog(db, logId, userId) ==
    LET rows == {l \in db.logs : l.id = logId /\ l.userId = userId}
    IN  IF rows = {} THEN None ELSE Some(CHOOSE l \in rows : TRUE)

\* (mutant) the UPDATE of a log leaves quantity out of SET
updateLogRows_KeepsQuantity(db, userId, input, existingLog) ==
    {IF l.id = Val(input.id) /\ l.userId = userId
     THEN [l EXCEPT
             !.habitId = Val(input.habitId),
             !.logDate = Coalesce(input.logDate, existingLog.logDate),
             !.notes = IF IsSome(input.notes) THEN input.notes ELSE @]
     ELSE l : l \in db.logs}

\* db.update(EcoHabitLogs).set({ habitId, logDate, quantity, notes })
\*   .where(id = input.id and userId = user.id); the query builder leaves out
\* of SET a key whose value is undefined
updateLogRows(db, userId, input, existingLog) ==
    {IF l.id = Val(input.id) /\ l.userId = userId
     THEN [l EXCEPT
             !.habitId = Val(input.habitId),
             !.logDate = Coalesce(input.logDate, existingLog.logDate),
             !.quantity = IF IsSome(input.quantity) THEN input.quantity ELSE @,
             !.notes = IF IsSome(input.notes) THEN input.notes ELSE @]
     ELSE l : l \in db.logs}

\* db.insert(EcoHabitLogs).values({ id, habitId, userId, logDate, quantity,
\* notes, createdAt })
insertLog(db, logId, userId, input, timestamp) ==
    db.logs \cup
    {[id |-> logId, habitId |-> Val(input.habitId), userId |-> userId,
      logDate |-> Coalesce(input.logDate, timestamp),
      quantity |-> input.quantity, notes |-> input.notes,
      createdAt |-> timestamp]}

\* db.select().from(EcoHabitLogs).where(whereClause) of listHabitLogs
selectLogs(db, userId, habitId) ==
    IF Truthy(habitId)
    THEN {l \in db.logs : l.userId = userId /\ l.habitId = Val(habitId)}
    ELSE {l \in db.logs : l.userId = userId}

----------------------------------------------------------------------------
(* The six actions: the outcome of one invocation on database db *)

createHabit(db, context, input) ==
    defineAction(db, habitFieldsSchema(input),
        LET user == requireUser(context)
            habitId == randomUUID(db.issued)
        IN  IF user.error # "" THEN Throw(db, user.error, 0)
            ELSE Outcome("OK", [habitId |-> habitId],
                         insertHabit(db, habitId, user.id, input, db.now),
                         db.logs, db.issued + 1, 1))

updateHabit(db, context, input) ==
    defineAction(db, updateHabitSchema(input),
        LET user == requireUser(context)
        IN  IF user.error # "" THEN Throw(db, user.error, 0)
            ELSE IF ~IsSome(getHabitForUser(db, Val(input.id), user.id))
            THEN Throw(db, "NOT_FOUND", 1)
            ELSE Outcome("OK", [habitId |-> Val(input.id)],
                         updateHabitRows(db, user.id, input, db.now),
                         db.logs, db.issued, 2))

archiveHabit(db, context, input) ==
    defineAction(db, archiveHabitSchema(input),
        LET user == requireUser(context)
        IN  IF user.error # "" THEN Throw(db, user.error, 0)
            ELSE IF ~IsSome(getHabitForUser(db, Val(input.id), user.id))
            THEN Throw(db, "NOT_FOUND", 1)
            ELSE Outcome("OK", [habitId |-> Val(input.id)],
                         archiveHabitRows(db, user.id, input, db.now),
                         db.logs, db.issued, 2))

listMyHabits(db, context, input) ==
    defineAction(db, listMyHabitsSchema(input),
        LET user == requireUser(context)
            items == selectHabits(db, user.id,
                                  Coalesce(input.includeInactive, FALSE))
        IN  IF user.error # "" THEN Throw(db, user.error, 0)
            ELSE Outcome("OK", [items |-> items, total |-> Cardinality(items)],
                         db.habits, db.logs, db.issued, 1))

\* (mutant) the habit is checked on the create path only: the update path
\* writes whatever habitId the payload names
upsertHabitLog_UpdateSkipsHabitCheck(db, context, input) ==
    defineAction(db, upsertHabitLogSchema(input),
        LET user == requireUser(context)
            existingLog == selectLog(db, Val(input.id), user.id)
            logId == randomUUID(db.issued)
        IN  IF user.error # "" THEN Throw(db, user.error, 0)
            ELSE IF Truthy(input.id)
            THEN IF ~IsSome(existingLog) THEN Throw(db, "NOT_FOUND", 1)
                 ELSE Outcome("OK",
                              [logId |-> Val(input.id), mode |-> "updated"],
                              db.habits,
                              updateLogRows(db, user.id, input, Val(existingLog)),
                              db.issued, 2)
            ELSE IF ~IsSome(getHabitForUser(db, Val(input.habitId), user.id))
            THEN Throw(db, "NOT_FOUND", 1)
            ELSE Outcome("OK", [logId |-> logId, mode |-> "created"], db.habits,
                         insertLog(db, logId, user.id, input, db.now),
                         db.issued + 1, 2))

\* (mutant) the create path inserts the log before the habit is looked up, and
\* the NOT_FOUND that follows leaves the inserted row behind
upsertHabitLog_InsertsBeforeCheck(db, context, input) ==
    defineAction(db, upsertHabitLogSchema(input),
        LET user == requireUser(context)
            existingLog == selectLog(db, Val(input.id), user.id)
            logId == randomUUID(db.issued)
        IN  IF user.error # "" THEN Throw(db, user.error, 0)
            ELSE IF Truthy(input.id)
            THEN IF ~IsSome(getHabitForUser(db, Val(input.habitId), user.id))
                    \/ ~IsSome(existingLog)
                 THEN Throw(db, "NOT_FOUND", 2)
                 ELSE Outcome("OK",
                              [logId |-> Val(input.id), mode |-> "updated"],
                              db.habits,
                              updateLogRows(db, user.id, input, Val(existingLog)),
                              db.issued, 3)
            ELSE IF ~IsSome(getHabitForUser(db, Val(input.habitId), user.id))
            THEN Outcome("NOT_FOUND", None, db.habits,
                         insertLog(db, logId, user.id, input, db.now),
                         db.issued + 1, 2)
            ELSE Outcome("OK", [logId |-> logId, mode |-> "created"], db.habits,
                         insertLog(db, logId, user.id, input, db.now),
                         db.issued + 1, 2))

upsertHabitLog(db, context, input) ==
    defineAction(db, upsertHabitLogSchema(input),
        LET user == requireUser(context)
            existingLog == selectLog(db, Val(input.id), user.id)
            logId == randomUUID(db.issued)
        IN  IF user.error # "" THEN Throw(db, user.error, 0)
            ELSE IF ~IsSome(getHabitForUser(db, Val(input.habitId), user.id))
            THEN Throw(db, "NOT_FOUND", 1)
            ELSE IF Truthy(input.id)
            THEN IF ~IsSome(existingLog) THEN Throw(db, "NOT_FOUND", 2)
                 ELSE Outcome("OK",
                              [logId |-> Val(input.id), mode |-> "updated"],
                              db.habits,
                              updateLogRows(db, user.id, input, Val(existingLog)),
                              db.issued, 3)
            ELSE Outcome("OK", [logId |-> logId, mode |-> "created"], db.habits,
                         insertLog(db, logId, user.id, input, db.now),
                         db.issued + 1, 2))

listHabitLogs(db, context, input) ==
    defineAction(db, listHabitLogsSchema(input),
        LET user == requireUser(context)
            habitId == Coalesce(input, [habitId |-> None]).habitId
            items == selectLogs(db, user.id, habitId)
        IN  IF user.error # "" THEN Throw(db, user.error, 0)
            ELSE IF Truthy(habitId)
                    /\ ~IsSome(getHabitForUser(db, Val(habitId), user.id))
            THEN Throw(db, "NOT_FOUND", 1)
            ELSE Outcome("OK", [items |-> items, total |-> Cardinality(items)],
                         db.habits, db.logs, db.issued,
                         IF Truthy(habitId) THEN 2 ELSE 1))

----------------------------------------------------------------------------
(* The sequential specification: one invocation at a time *)

Init ==
    /\ habits = {}
    /\ logs = {}
    /\ issued = 0
    /\ now = 0
    /\ focus \in Focuses
    /\ archived = {}
    /\ pc = <<>>
    /\ req = <<>>
    /\ orig = <<>>

\* an invocation ends with outcome r
Invoke(r) ==
    /\ Cardinality(r.habits) <= MaxHabits
    /\ Cardinality(r.logs) <= MaxLogs
    /\ habits' = r.habits
    /\ logs' = r.logs
    /\ issued' = r.issued
    /\ UNCHANGED <<now, focus, pc, req, orig>>

CreateHabit ==
    \E context \in Contexts, input \in CreateHabitInputs :
        /\ Invoke(createHabit(Cur, context, input))
        /\ UNCHANGED archived

UpdateHabit ==
    \E context \in Contexts, input \in UpdateHabitInputs :
        /\ Invoke(updateHabit(Cur, context, input))
        /\ UNCHANGED archived

ArchiveHabit ==
    \E context \in Contexts, input \in ArchiveHabitInputs :
        LET r == archiveHabit(Cur, context, input)
        IN  /\ Invoke(r)
            /\ archived' =
                 IF r.code = "OK" THEN archived \cup {r.data.habitId}
                 ELSE archived

ListMyHabits ==
    \E context \in Contexts, input \in ListMyHabitsInputs :
        /\ Invoke(listMyHabits(Cur, context, input))
        /\ UNCHANGED archived

UpsertHabitLog ==
    \E context \in Contexts, input \in UpsertHabitLogInputs :
        /\ Invoke(upsertHabitLog(Cur, context, input))
        /\ UNCHANGED archived

ListHabitLogs ==
    \E context \in Contexts, input \in ListHabitLogsInputs :
        /\ Invoke(listHabitLogs(Cur, context, input))
        /\ UNCHANGED archived

\* time passes between invocations
Tick ==
    /\ focus = "clock"
    /\ now < MaxTime
    /\ now' = now + 1
    /\ UNCHANGED <<habits, logs, issued, focus, archived, pc, req, orig>>

Next ==
    \/ CreateHabit
    \/ UpdateHabit
    \/ ArchiveHabit
    \/ ListMyHabits
    \/ UpsertHabitLog
    \/ ListHabitLogs
    \/ Tick

Spec == Init /\ [][Next]_vars

----------------------------------------------------------------------------
(* Every invocation a caller can make in the current state *)

Ops ==
    {"createHabit", "updateHabit", "archiveHabit", "listMyHabits",
     "upsertHabitLog", "listHabitLogs"}

Inputs(op) ==
    CASE op = "createHabit" -> CreateHabitInputs
      [] op = "updateHabit" -> UpdateHabitInputs
      [] op = "archiveHabit" -> ArchiveHabitInputs
      [] op = "listMyHabits" -> ListMyHabitsInputs
      [] op = "upsertHabitLog" -> UpsertHabitLogInputs
      [] op = "listHabitLogs" -> ListHabitLogsInputs

Parses(op, input) ==
    CASE op = "createHabit" -> habitFieldsSchema(input)
      [] op = "updateHabit" -> updateHabitSchema(input)
      [] op = "archiveHabit" -> archiveHabitSchema(input)
      [] op = "listMyHabits" -> listMyHabitsSchema(input)
      [] op = "upsertHabitLog" -> upsertHabitLogSchema(input)
      [] op = "listHabitLogs" -> listHabitLogsSchema(input)

Run(db, op, context, input) ==
    CASE op = "createHabit" -> createHabit(db, context, input)
      [] op = "updateHabit" -> updateHabit(db, context, input)
      [] op = "archiveHabit" -> archiveHabit(db, context, input)
      [] op = "listMyHabits" -> listMyHabits(db, context, input)
      [] op = "upsertHabitLog" -> upsertHabitLog(db, context, input)
      [] op = "listHabitLogs" -> listHabitLogs(db, context, input)

\* the outcome left both tables as they were
Untouched(db, r) == r.habits = db.habits /\ r.logs = db.logs

HabitIds == {h.id : h \in habits}

LogIds == {l.id : l \in logs}

HabitsOf(u) == {h \in habits : h.userId = u}

LogsOf(u) == {l \in logs : l.userId = u}

----------------------------------------------------------------------------
(* C1 *)

\* C1 as stated: for each of the six actions and every input payload, valid or
\* invalid, an invocation without a user identity ends with UNAUTHORIZED and
\* sends no statement to the database.
C1_AnyPayloadUnauthorized ==
    \A op \in Ops : \A input \in Inputs(op) :
        LET r == Run(Cur, op, None, input)
        IN  r.code = "UNAUTHORIZED" /\ r.dbOps = 0 /\ Untouched(Cur, r)

\* C1 as amended: for each of the six actions, an invocation without a user
\* identity ends with UNAUTHORIZED when its payload passes the action's input
\* schema and with the validation failure when it does not; in both cases it
\* sends no statement to the database and both tables stay as they were.
C1_ParsedPayloadUnauthorized ==
    \A op \in Ops : \A input \in Inputs(op) :
        LET r == Run(Cur, op, None, input)
        IN  /\ r.code = IF Parses(op, input) THEN "UNAUTHORIZED" ELSE "VALIDATION"
            /\ r.dbOps = 0
            /\ r.data = None
            /\ Untouched(Cur, r)

\* Both tables hold rows, and an anonymous upsertHabitLog that names a stored
\* log and a stored habit is turned away with UNAUTHORIZED.
C1_Witness ==
    /\ habits # {}
    /\ logs # {}
    /\ \E input \in UpsertHabitLogInputs :
        /\ Truthy(input.id) /\ Val(input.id) \in LogIds
        /\ Truthy(input.habitId) /\ Val(input.habitId) \in HabitIds
        /\ upsertHabitLog(Cur, None, input).code = "UNAUTHORIZED"

----------------------------------------------------------------------------
(* C2 *)

\* the invocation was refused: NOT_FOUND for a payload that passes the input
\* schema (the validation failure otherwise), no data, nothing written
Refused(op, input, r) ==
    /\ r.code = IF Parses(op, input) THEN "NOT_FOUND" ELSE "VALIDATION"
    /\ r.data = None
    /\ Untouched(Cur, r)

\* C2: for distinct users a and b, an updateHabit, archiveHabit, upsertHabitLog
\* or listHabitLogs by a that names a habit owned by b, or an upsertHabitLog by
\* a that names a log owned by b, ends with NOT_FOUND (a payload the input
\* schema rejects never reaches the handler and ends with the validation
\* failure), returns no record and leaves every stored habit and log (b's
\* among them) unchanged.
C2_CrossUserNotFound ==
    \A a \in Users : \A b \in Users \ {a} :
        LET hb == {Some(h.id) : h \in HabitsOf(b)}
            lb == {Some(l.id) : l \in LogsOf(b)}
        IN  /\ \A input \in UpdateHabitInputs :
                input.id \in hb =>
                    Refused("updateHabit", input, updateHabit(Cur, Some(a), input))
            /\ \A input \in ArchiveHabitInputs :
                input.id \in hb =>
                    Refused("archiveHabit", input,
                            archiveHabit(Cur, Some(a), input))
            /\ \A input \in UpsertHabitLogInputs :
                (input.habitId \in hb \/ input.id \in lb) =>
                    Refused("upsertHabitLog", input,
                            upsertHabitLog(Cur, Some(a), input))
            /\ \A input \in ListHabitLogsInputs :
                (IsSome(input) /\ Val(input).habitId \in hb) =>
                    Refused("listHabitLogs", input,
                            listHabitLogs(Cur, Some(a), input))

\* alice and bob each own a habit, bob owns a log, and alice's upsertHabitLog
\* that names her own habit and bob's log is refused with NOT_FOUND.
C2_Witness ==
    /\ HabitsOf("alice") # {}
    /\ \E l \in LogsOf("bob") : \E h \in HabitsOf("alice") :
        upsertHabitLog(Cur, Some("alice"),
                       [id |-> Some(l.id), habitId |-> Some(h.id),
                        logDate |-> None, quantity |-> None, notes |-> None]).code
            = "NOT_FOUND"

----------------------------------------------------------------------------
(* C3 *)

\* C3: every stored log references a stored habit that has the log's owner.
C3_LogReferencesOwnHabit ==
    \A l \in logs : \E h \in habits : h.id = l.habitId /\ h.userId = l.userId

\* A log now references a habit that was created after the log: the update
\* path of upsertHabitLog has changed its habitId.
C3_Witness ==
    \E l \in logs : l.id = randomUUID(1) /\ l.habitId = randomUUID(2)

----------------------------------------------------------------------------
(* C4 *)

\* the rows of table L with identifier id
LogRows(L, id) == {l \in L : l.id = id}

\* upsertHabitLog by u with payload `input`, which names log `id`, updates that
\* log in place, and listHabitLogs for the payload's habit then shows it once,
\* with the payload's quantity
UpdatesInPlace(db, u, input, id) ==
    LET r == upsertHabitLog(db, Some(u), input)
        shown == listHabitLogs(After(db, r), Some(u),
                               Some([habitId |-> input.habitId]))
    IN  /\ r.code = "OK"
        /\ r.data = [logId |-> id, mode |-> "updated"]
        /\ Cardinality(r.logs) = Cardinality(db.logs)
        /\ {l.id : l \in r.logs} = {l.id : l \in db.logs}
        /\ shown.code = "OK"
        /\ Cardinality(LogRows(shown.data.items, id)) = 1
        /\ \A l \in LogRows(shown.data.items, id) : l.quantity = input.quantity

\* C4: upsertHabitLog without id on a habit of the caller returns mode
\* "created" with a logId no log has and randomUUID never produced before, and
\* adds exactly one log; an upsertHabitLog by the same caller with that logId
\* (at once, or in any later state in which the log is stored) and another
\* quantity returns mode "updated" with the same logId, adds no log, and
\* listHabitLogs for that habit then shows the log once, with the new quantity.
C4_CreateThenUpdate ==
    \A u \in Users :
        /\ \A input \in UpsertHabitLogInputs :
            ( /\ input.id = None
              /\ upsertHabitLogSchema(input)
              /\ input.habitId \in {Some(h.id) : h \in HabitsOf(u)} ) =>
                LET r == upsertHabitLog(Cur, Some(u), input)
                IN  /\ r.code = "OK"
                    /\ r.data.mode = "created"
                    /\ r.data.logId \notin LogIds \cup HabitIds
                    /\ r.data.logId \notin {UUIDPool[k] : k \in 1..issued}
                    /\ logs \subseteq r.logs
                    /\ Cardinality(r.logs) = Cardinality(logs) + 1
                    /\ Cardinality(LogRows(r.logs, r.data.logId)) = 1
                    /\ \A q \in {1, 2} :
                        Some(q) # input.quantity =>
                            UpdatesInPlace(After(Cur, r), u,
                                [input EXCEPT !.id = Some(r.data.logId),
                                              !.quantity = Some(q)],
                                r.data.logId)
        /\ \A l \in LogsOf(u) : \A h \in HabitsOf(u) : \A q \in {1, 2} :
            Some(q) # l.quantity =>
                UpdatesInPlace(Cur, u,
                    [id |-> Some(l.id), habitId |-> Some(h.id), logDate |-> None,
                     quantity |-> Some(q), notes |-> None], l.id)

\* A log created with quantity 1 is stored, and its owner's upsertHabitLog
\* with the log's id and quantity 2 returns mode "updated".
C4_Witness ==
    \E l \in logs :
        /\ l.quantity = Some(1)
        /\ upsertHabitLog(Cur, Some(l.userId),
                          [id |-> Some(l.id), habitId |-> Some(l.habitId),
                           logDate |-> None, quantity |-> Some(2),
                           notes |-> None]).data.mode = "updated"

----------------------------------------------------------------------------
(* C5 *)

\* C5 as stated: an upsertHabitLog whose payload carries an id (any string) and
\* names a habit of the caller takes the update path: it returns mode
\* "updated" or fails with NOT_FOUND, and it never inserts a log; a payload
\* without id takes the create path.
C5_IdPresenceSelectsPath ==
    \A u \in Users : \A input \in UpsertHabitLogInputs :
        ( /\ upsertHabitLogSchema(input)
          /\ input.habitId \in {Some(h.id) : h \in HabitsOf(u)} ) =>
            LET r == upsertHabitLog(Cur, Some(u), input)
            IN  IF IsSome(input.id)
                THEN /\ \/ r.code = "OK" /\ r.data.mode = "updated"
                        \/ r.code = "NOT_FOUND"
                     /\ Cardinality(r.logs) = Cardinality(logs)
                ELSE r.code = "OK" /\ r.data.mode = "created"

----------------------------------------------------------------------------
(* C6 *)

\* what listMyHabits returns to user u for includeInactive = inc
Listed(u, inc) == listMyHabits(Cur, Some(u), [includeInactive |-> inc])

\* C6: once archiveHabit has archived a habit, in every later state its
\* owner's listMyHabits with includeInactive false (given or defaulted) does
\* not contain it and listMyHabits with includeInactive true contains it with
\* isActive false; and a successful archiveHabit leaves every log unchanged.
C6_ArchivedStaysHidden ==
    /\ \A id \in archived : \E h \in habits :
        /\ h.id = id
        /\ Listed(h.userId, Some(FALSE)).code = "OK"
        /\ \A x \in Listed(h.userId, Some(FALSE)).data.items : x.id # id
        /\ \A x \in Listed(h.userId, None).data.items : x.id # id
        /\ \E x \in Listed(h.userId, Some(TRUE)).data.items :
            x.id = id /\ x.isActive = FALSE
        /\ \A x \in Listed(h.userId, Some(TRUE)).data.items :
            x.id = id => x.isActive = FALSE
    /\ \A u \in Users : \A input \in ArchiveHabitInputs :
        LET r == archiveHabit(Cur, Some(u), input)
        IN  r.code = "OK" => r.logs = logs

\* An archived habit that has a log has been renamed by updateHabit and was
\* last written after the time of its creation.
C6_Witness ==
    \E h \in habits :
        /\ h.id \in archived
        /\ h.name = "n2"
        /\ h.updatedAt > h.createdAt
        /\ \E l \in logs : l.habitId = h.id

----------------------------------------------------------------------------
(* C7 *)

\* C7: a successful updateHabit sets, on the habit it names, each field the
\* payload provides to the payload's value and updatedAt to the current time;
\* every field the payload does not provide, and id, userId, isActive and
\* createdAt, keep their values; every other habit and every log is unchanged.
C7_UpdateChangesProvidedFields ==
    \A u \in Users : \A input \in UpdateHabitInputs :
        LET r == updateHabit(Cur, Some(u), input)
        IN  r.code = "OK" =>
                LET id == Val(input.id)
                    before == {h \in habits : h.id = id}
                    after == {h \in r.habits : h.id = id}
                IN  /\ Cardinality(before) = 1
                    /\ Cardinality(after) = 1
                    /\ \A h \in before : \A g \in after :
                        /\ g.name =
                             IF IsSome(input.name) THEN Val(input.name)
                             ELSE h.name
                        /\ \A f \in HabitOptionalFields :
                             g[f] = IF IsSome(input[f]) THEN input[f] ELSE h[f]
                        /\ g.id = h.id
                        /\ g.userId = h.userId
                        /\ g.isActive = h.isActive
                        /\ g.createdAt = h.createdAt
                        /\ g.updatedAt = now
                    /\ {h \in r.habits : h.id # id} = {h \in habits : h.id # id}
                    /\ r.logs = logs

\* An active habit carries an optional field and the name only updateHabit
\* gives, while another habit and a log are stored: updateHabit has acted, and
\* its owner can rename the habit again without providing the optional field.
C7_Witness ==
    \E h \in habits :
        /\ h.isActive
        /\ h.name = "n2"
        /\ \E f \in HabitOptionalFields : IsSome(h[f])
        /\ \E g \in habits : g.id # h.id
        /\ logs # {}
        /\ updateHabit(Cur, Some(h.userId),
                       WithId([name |-> Some("n2"), description |-> None,
                               category |-> None, frequency |-> None,
                               targetPerPeriod |-> None, impactPerUnit |-> None,
                               impactUnit |-> None], Some(h.id))).code = "OK"

----------------------------------------------------------------------------
(* C8 *)

\* the full effect of a successful invocation by user u
Applied(op, u, input, r) ==
    CASE op = "createHabit" ->
            /\ r.habits =
                 habits \cup
                 {[id |-> r.data.habitId, userId |-> u, name |-> Val(input.name),
                   description |-> input.description,
                   category |-> input.category, frequency |-> input.frequency,
                   targetPerPeriod |-> input.targetPerPeriod,
                   impactPerUnit |-> input.impactPerUnit,
                   impactUnit |-> input.impactUnit, isActive |-> TRUE,
                   createdAt |-> now, updatedAt |-> now]}
            /\ r.data.habitId \notin HabitIds
            /\ r.logs = logs
      [] op = "updateHabit" ->
            /\ \E g \in r.habits :
                /\ g.id = Val(input.id) /\ g.userId = u /\ g.updatedAt = now
                /\ IsSome(input.name) => g.name = Val(input.name)
                /\ \A f \in HabitOptionalFields :
                    IsSome(input[f]) => g[f] = input[f]
            /\ r.data.habitId = Val(input.id)
            /\ r.logs = logs
      [] op = "archiveHabit" ->
            /\ \E g \in r.habits :
                /\ g.id = Val(input.id) /\ g.userId = u /\ g.updatedAt = now
                /\ g.isActive = FALSE
            /\ r.data.habitId = Val(input.id)
            /\ r.logs = logs
      [] op = "upsertHabitLog" ->
            /\ \E l \in r.logs :
                /\ l.id = r.data.logId /\ l.userId = u
                /\ l.habitId = Val(input.habitId)
                /\ IsSome(input.logDate) => l.logDate = Val(input.logDate)
                /\ IsSome(input.quantity) => l.quantity = input.quantity
                /\ IsSome(input.notes) => l.notes = input.notes
            /\ r.habits = habits
      [] op = "listMyHabits" -> Untouched(Cur, r)
      [] op = "listHabitLogs" -> Untouched(Cur, r)

\* C8: an invocation that ends with an error (UNAUTHORIZED, NOT_FOUND or the
\* validation failure) leaves both tables, and the identifier counter, as they
\* were; one that returns the success envelope has applied its full effect.
C8_AllOrNothing ==
    \A op \in Ops : \A context \in Contexts : \A input \in Inputs(op) :
        LET r == Run(Cur, op, context, input)
        IN  /\ r.code \in {"OK", "UNAUTHORIZED", "NOT_FOUND", "VALIDATION"}
            /\ r.code # "OK" =>
                 Untouched(Cur, r) /\ r.issued = issued /\ r.data = None
            /\ r.code = "OK" =>
                 IsSome(context) /\ Applied(op, Val(context), input, r)

\* Both tables hold rows and, by one user, an updateHabit with an empty name
\* fails validation, an archiveHabit of another user's habit ends NOT_FOUND and
\* an archiveHabit of an own habit succeeds.
C8_Witness ==
    /\ logs # {}
    /\ \E h \in habits : \E g \in habits :
        /\ h.userId # g.userId
        /\ updateHabit(Cur, Some(h.userId),
                       WithId([name |-> Some(""), description |-> None,
                               category |-> None, frequency |-> None,
                               targetPerPeriod |-> None, impactPerUnit |-> None,
                               impactUnit |-> None], Some(h.id))).code
             = "VALIDATION"
        /\ archiveHabit(Cur, Some(h.userId), [id |-> Some(g.id)]).code
             = "NOT_FOUND"
        /\ archiveHabit(Cur, Some(h.userId), [id |-> Some(h.id)]).code = "OK"

----------------------------------------------------------------------------
(* C9 *)

\* C9 as stated: listHabitLogs with a habitId in the payload (any string)
\* requires that habit to be owned by the caller, failing with NOT_FOUND
\* otherwise, and on success returns exactly the caller's logs of that habit;
\* without habitId it returns exactly the caller's logs; total is the number
\* of items.
C9_ListHabitLogs ==
    \A u \in Users : \A input \in ListHabitLogsInputs :
        LET r == listHabitLogs(Cur, Some(u), input)
            habitId == IF IsSome(input) THEN Val(input).habitId ELSE None
        IN  IF IsSome(habitId)
            THEN IF habitId \in {Some(h.id) : h \in HabitsOf(u)}
                 THEN /\ r.code = "OK"
                      /\ r.data.items =
                           {l \in LogsOf(u) : l.habitId = Val(habitId)}
                      /\ r.data.total = Cardinality(r.data.items)
                 ELSE r.code = "NOT_FOUND"
            ELSE /\ r.code = "OK"
                 /\ r.data.items = LogsOf(u)
                 /\ r.data.total = Cardinality(r.data.items)

----------------------------------------------------------------------------
(* Two concurrent updateHabit invocations on one habit *)

\* the habit both invocations name, as createHabit by alice stored it
ConcHabit(category, targetPerPeriod) ==
    [id |-> randomUUID(0), userId |-> "alice", name |-> "n0",
     description |-> Some("d"), category |-> category, frequency |-> None,
     targetPerPeriod |-> targetPerPeriod, impactPerUnit |-> None,
     impactUnit |-> None, isActive |-> TRUE, createdAt |-> 0, updatedAt |-> 0]

\* the payloads of invocation i: any of name, category and targetPerPeriod,
\* at least one of them, with values that tell the two invocations apart
ConcInputs(i) ==
    {in \in [id : {Some(randomUUID(0))},
             name : {None, Some(<<"n1", "n2">>[i])},
             description : {None},
             category : {None, Some(<<"water", "energy">>[i])},
             frequency : {None},
             targetPerPeriod : {None, Some(i)},
             impactPerUnit : {None},
             impactUnit : {None}] : updateHabitSchema(in)}

InitConc ==
    /\ \E c \in {None, Some("transport")} : \E t \in {None, Some(5)} :
        /\ habits = {ConcHabit(c, t)}
        /\ orig = [habit |-> ConcHabit(c, t), wrote |-> <<>>]
    /\ logs = {}
    /\ issued = 1
    /\ now = 0
    /\ focus = "clock"
    /\ archived = {}
    /\ pc = [i \in {1, 2} |-> "start"]
    /\ \E u1 \in Users, u2 \in Users, in1 \in ConcInputs(1), in2 \in ConcInputs(2) :
        req = <<[user |-> u1, input |-> in1], [user |-> u2, input |-> in2]>>

\* invocation i up to its ownership check: requireUser, getHabitForUser and
\* the NOT_FOUND it throws when no row came back
CheckOwner(i) ==
    /\ pc[i] = "start"
    /\ LET user == requireUser(Some(req[i].user))
           habit == getHabitForUser(Cur, Val(req[i].input.id), user.id)
       IN  pc' = [pc EXCEPT ![i] = IF IsSome(habit) THEN "write" ELSE "NOT_FOUND"]
    /\ UNCHANGED <<habits, logs, issued, now, focus, archived, req, orig>>

\* invocation i's UPDATE statement, and its return
WriteHabit(i) ==
    /\ pc[i] = "write"
    /\ habits' = updateHabitRows(Cur, req[i].user, req[i].input, now)
    /\ pc' = [pc EXCEPT ![i] = "OK"]
    /\ orig' = [orig EXCEPT !.wrote = Append(@, i)]
    /\ UNCHANGED <<logs, issued, now, focus, archived, req>>

NextConc ==
    \/ \E i \in {1, 2} : CheckOwner(i)
    \/ \E i \in {1, 2} : WriteHabit(i)
    \/ Tick

SpecConc == InitConc /\ [][NextConc]_vars

----------------------------------------------------------------------------
(* C10 *)

\* the invocations that have written and whose payload provides field f, in
\* the order in which they wrote
WritersOf(f) == SelectSeq(orig.wrote, LAMBDA i : IsSome(req[i].input[f]))

\* the value field f must have by last-writer-wins: the payload value of the
\* last invocation that wrote f, or the original value when none did
LastWritten(f) ==
    LET w == WritersOf(f)
    IN  IF w = <<>> THEN orig.habit[f]
        ELSE IF f = "name" THEN Val(req[w[Len(w)]].input[f])
        ELSE req[w[Len(w)]].input[f]

\* C10: when two updateHabit invocations on one habit interleave their
\* ownership reads and their writes in any order, each invocation by the owner
\* succeeds (it is never refused), and at every moment each field of the habit
\* has the value of the invocation that wrote that field last, and its
\* original value when no invocation that has written provides it: a field
\* only one invocation provides is never reverted by the other.
C10_FieldLastWriterWins ==
    /\ \A i \in {1, 2} :
        /\ req[i].user = orig.habit.userId => pc[i] # "NOT_FOUND"
        /\ req[i].user # orig.habit.userId => pc[i] \in {"start", "NOT_FOUND"}
    /\ Cardinality(habits) = 1
    /\ \A h \in habits :
        /\ \A f \in {"name"} \cup HabitOptionalFields : h[f] = LastWritten(f)
        /\ h.id = orig.habit.id
        /\ h.userId = orig.habit.userId
        /\ h.isActive = orig.habit.isActive
        /\ h.createdAt = orig.habit.createdAt

\* Both invocations are the owner's and have returned; invocation 2 wrote
\* name and category first, invocation 1 wrote only name after it: the habit
\* has invocation 1's name, invocation 2's category and its original
\* targetPerPeriod.
C10_Witness ==
    /\ pc = [i \in {1, 2} |-> "OK"]
    /\ orig.wrote = <<2, 1>>
    /\ IsSome(req[2].input.name) /\ IsSome(req[2].input.category)
    /\ req[2].input.targetPerPeriod = None
    /\ IsSome(req[1].input.name) /\ req[1].input.category = None
    /\ req[1].input.targetPerPeriod = None
    /\ orig.habit.targetPerPeriod = Some(5)
    /\ \E h \in habits :
        /\ h.name = "n1" /\ h.category = Some("energy")
        /\ h.targetPerPeriod = Some(5)

====
